---------------------------- MODULE Spec2Model ----------------------------
(***************************************************************************)
(* Model of the viewer plugin (read-through cache in front of a paced,     *)
(* concurrent per-profile aggregation of upstream ladder data).            *)
(*                                                                         *)
(* JavaScript values are represented as follows:                           *)
(*   - an object is a record; a property that is missing or undefined is   *)
(*     a field that is not in the record's DOMAIN;                         *)
(*   - an optional string is a string or Undefined;                        *)
(*   - an array is a sequence;                                             *)
(*   - a number that results from a division is a tagged record            *)
(*     [kind, value], kind being "finite", "Infinity", "NaN" or "null".    *)
(***************************************************************************)
EXTENDS Integers, Sequences, FiniteSets, TLC

VARIABLES
    cacheActive,    \* Boolean(server.redis), fixed when the plugin is registered
    cache,          \* the cache backend: segment -> entry
    pc,             \* per getData call: where the call stands
    req,            \* per getData call: its destructured parameters
    seen,           \* per getData call: what its cache reads found in the backend
    pipe,           \* per getData call: one getProfileData pipeline per profile
    ret,            \* per getData call: the value the call resolved with
    wr,             \* per getData call: its un-awaited cacheObject call
    held,           \* per getData call: the cache has held its batch result
                    \* with the configured expiry (history variable)
    fn,             \* pure-function harness: the function applied, or "none"
    arg,            \* pure-function harness: its input
    out,            \* pure-function harness: its output, once applied
    refreshGiven,   \* per getData call: the refresh parameter it was given
                    \* (history variable; getData never reads it)
    db,             \* the persistent store: channelId -> stored configuration
    op,             \* per call of db.save or db.get: where it stands
    saved           \* per channel: the list given to the last save that
                    \* returned true (history variable)

viewerVars == <<cacheActive, cache, pc, req, seen, pipe, ret, wr, held>>

pureVars == <<fn, arg, out>>

storeVars == <<db, op, saved>>

vars == <<cacheActive, cache, pc, req, seen, pipe, ret, wr, held, fn, arg,
          out, refreshGiven, db, op, saved>>

-----------------------------------------------------------------------------
(* Bounds *)

MaxCalls == 2       \* getData calls in one behaviour

MaxProfiles == 2    \* profiles in one batch

MaxLadders == 1     \* ladder memberships in one ladder summary

MaxWins == 3        \* totalWins of one game mode

MaxGames == 10      \* totalRankedSeasonGamesPlayed

MaxOps == 3         \* calls of db.save and db.get in one behaviour

MaxSaved == 3       \* profiles in one list given to db.save

MaxSiblings == 2    \* ladder memberships in one ladder summary, when one
                    \* getData call is followed on its own

-----------------------------------------------------------------------------
(* Values *)

Undefined == "<undefined>"

EmptyObject == [k \in {} |-> k]

Has(obj, field) == field \in DOMAIN obj

\* JavaScript truthiness of an optional string.
Truthy(s) == s # Undefined /\ s # ""

Finite(n) == [kind |-> "finite", value |-> n]
Infinity == [kind |-> "Infinity", value |-> 0]
NaN == [kind |-> "NaN", value |-> 0]
JsonNull == [kind |-> "null", value |-> 0]

\* The thrown value of a synchronous failure inside a transformation.
TypeError == [error |-> "TypeError"]

IsError(v) == v = TypeError

-----------------------------------------------------------------------------
(* String.prototype.toLowerCase over the labels the model uses *)

LowerOf ==
    [s \in {"Bronze", "Silver", "Gold", "Platinum", "Diamond", "Master",
            "Grandmaster", "DIAMOND", "MASTER", "Unranked", "Legend",
            "Win", "Loss", "WIN", "1v1", "2v2", "Random", "Custom"} |->
        CASE s = "Bronze" -> "bronze"
          [] s = "Silver" -> "silver"
          [] s = "Gold" -> "gold"
          [] s = "Platinum" -> "platinum"
          [] s = "Diamond" -> "diamond"
          [] s = "Master" -> "master"
          [] s = "Grandmaster" -> "grandmaster"
          [] s = "DIAMOND" -> "diamond"
          [] s = "MASTER" -> "master"
          [] s = "Unranked" -> "unranked"
          [] s = "Legend" -> "legend"
          [] s = "Win" -> "win"
          [] s = "Loss" -> "loss"
          [] s = "WIN" -> "win"
          [] s = "1v1" -> "1v1"
          [] s = "2v2" -> "2v2"
          [] s = "Random" -> "random"
          [] s = "Custom" -> "custom"]

\* A string without upper-case letters is its own lower case.
toLowerCase(s) == IF s \in DOMAIN LowerOf THEN LowerOf[s] ELSE s

-----------------------------------------------------------------------------
(* Rank tiers and the portrait frame *)

ranks == <<"bronze", "silver", "gold", "platinum", "diamond", "master",
           "grandmaster">>

\* Array.prototype.indexOf: the 0-based position of x, or -1.
indexOf(arr, x) ==
    IF \E i \in 1..Len(arr) : arr[i] = x
    THEN (CHOOSE i \in 1..Len(arr) :
            arr[i] = x /\ \A j \in 1..(i - 1) : arr[j] # x) - 1
    ELSE -1

calculateHighestRank(soloRank, teamRank) ==
    LET soloRankIndex == IF Truthy(soloRank)
                         THEN indexOf(ranks, toLowerCase(soloRank)) ELSE -1
        teamRankIndex == IF Truthy(teamRank)
                         THEN indexOf(ranks, toLowerCase(teamRank)) ELSE -1
    IN  IF soloRankIndex > teamRankIndex
        THEN IF Truthy(soloRank) THEN toLowerCase(soloRank) ELSE ""
        ELSE IF Truthy(teamRank) THEN toLowerCase(teamRank) ELSE ""

-----------------------------------------------------------------------------
(* Season statistics *)

RECURSIVE SumOver(_, _)
SumOver(f, keys) ==
    IF keys = {} THEN 0
    ELSE LET k == CHOOSE x \in keys : TRUE
         IN  f[k].totalWins + SumOver(f, keys \ {k})

\* reduce without an initial value throws on an empty array.
calculateWins(seasonSnapshot) ==
    IF DOMAIN seasonSnapshot = {} THEN TypeError
    ELSE Finite(SumOver(seasonSnapshot, DOMAIN seasonSnapshot))

\* Math.round of a non-negative quotient n / d, d > 0: halves round up.
MathRound(n, d) == (2 * n + d) \div (2 * d)

\* wins * 100 / totalGames in IEEE arithmetic, then Math.round.
calculateSeasonWinRatio(apiData) ==
    IF ~Has(apiData, "seasonSnapshot") THEN TypeError
    ELSE LET wins == calculateWins(apiData.seasonSnapshot)
         IN  IF IsError(wins) THEN TypeError
             ELSE IF ~Has(apiData, "totalRankedSeasonGamesPlayed") THEN NaN
             ELSE LET totalGames == apiData.totalRankedSeasonGamesPlayed
                  IN  IF totalGames = 0
                      THEN IF wins.value = 0 THEN NaN ELSE Infinity
                      ELSE Finite(MathRound(wins.value * 100, totalGames))

\* x || 0 for a number x: NaN and 0 are falsy, Infinity is not.
OrZero(x) == IF x = NaN THEN Finite(0) ELSE x

\* career?.a?.leagueName?.toLowerCase() || ''
FinishLeague(career, finish) ==
    IF Has(career, finish) /\ Has(career[finish], "leagueName")
    THEN toLowerCase(career[finish].leagueName)
    ELSE ""

\* apiData is the body (.data) of the getProfile response.
getStats(apiData) ==
    LET hasCareer == Has(apiData, "career")
        hasSnapshot == Has(apiData, "snapshot")
        ratio == IF hasSnapshot THEN calculateSeasonWinRatio(apiData.snapshot)
                 ELSE TypeError
    IN  IF IsError(ratio) THEN TypeError
        ELSE [totalCareerGames |->
                 IF hasCareer /\ Has(apiData.career, "totalCareerGames")
                 THEN apiData.career.totalCareerGames ELSE 0,
              seasonWinRatio |-> OrZero(ratio),
              highestSoloRank |->
                 IF hasCareer THEN FinishLeague(apiData.career, "best1v1Finish")
                 ELSE "",
              highestTeamRank |->
                 IF hasCareer THEN FinishLeague(apiData.career, "bestTeamFinish")
                 ELSE ""]
             @@ (IF Has(apiData.snapshot, "totalRankedSeasonGamesPlayed")
                 THEN [totalRankedGamesThisSeason |->
                          apiData.snapshot.totalRankedSeasonGamesPlayed]
                 ELSE EmptyObject)

-----------------------------------------------------------------------------
(* Heading, match history, ladder entry *)

OptionalField(obj, field) == IF Has(obj, field) THEN obj[field] ELSE Undefined

\* Reading a property of a missing summary or career throws.
getHeading(apiData, regionName) ==
    IF ~Has(apiData, "summary") \/ ~Has(apiData, "career") THEN TypeError
    ELSE [portrait |->
             [url |-> OptionalField(apiData.summary, "portrait"),
              frame |-> calculateHighestRank(
                  OptionalField(apiData.career, "current1v1LeagueName"),
                  OptionalField(apiData.career, "currentBestTeamLeagueName"))],
          player |->
             [clan |-> [name |-> OptionalField(apiData.summary, "clanName"),
                        tag |-> OptionalField(apiData.summary, "clanTag")],
              name |-> OptionalField(apiData.summary, "displayName"),
              server |-> regionName]]

getMatchHistory_KeepCustom(matches) ==
    [i \in 1..Len(matches) |->
        [mapName |-> matches[i].map,
         mode |-> matches[i].type,
         result |-> toLowerCase(matches[i].decision),
         date |-> matches[i].date * 1000]]

\* matches is apiData.data.matches of the getLegacyMatchHistory response.
getMatchHistory(matches) ==
    LET NotCustom(match) == match.type # "Custom"
        filteredMatchHistory == SelectSeq(matches, NotCustom)
    IN  [i \in 1..Len(filteredMatchHistory) |->
            [mapName |-> filteredMatchHistory[i].map,
             mode |-> filteredMatchHistory[i].type,
             result |-> toLowerCase(filteredMatchHistory[i].decision),
             date |-> filteredMatchHistory[i].date * 1000]]

\* localizedGameMode is held split at its spaces, as the code splits it.
\* apiData is the body (.data) of a getLadder response.
getPlayerLadderInfo(apiData, profileId) ==
    LET localizedGameMode == apiData.currentLadderMembership.localizedGameMode
        HasPlayer(ladderTeam) ==
            \E m \in 1..Len(ladderTeam.teamMembers) :
                ladderTeam.teamMembers[m].id = profileId
        IsPlayer(teamMember) == teamMember.id = profileId
        mine == SelectSeq(apiData.ladderTeams, HasPlayer)
    IN  IF Len(apiData.ranksAndPools) = 0 \/ Len(mine) = 0
           \/ Len(localizedGameMode) < 2
        THEN TypeError
        ELSE [mode |-> toLowerCase(localizedGameMode[1]),
              rank |-> IF toLowerCase(localizedGameMode[2]) = "random"
                       THEN toLowerCase(localizedGameMode[3])
                       ELSE toLowerCase(localizedGameMode[2]),
              wins |-> mine[1].wins,
              losses |-> mine[1].losses,
              race |-> SelectSeq(mine[1].teamMembers, IsPlayer)[1].favoriteRace,
              mmr |-> apiData.ranksAndPools[1].mmr,
              divisionRank |-> apiData.ranksAndPools[1].rank,
              teamMembers |->
                  [m \in 1..Len(mine[1].teamMembers) |->
                      mine[1].teamMembers[m].displayName]]

-----------------------------------------------------------------------------
(* Requests and upstream responses *)

Calls == 1..MaxCalls

ChannelIds == {"c1", "c2"}

\* One player per region, as many players as a batch may hold.
PlayerObjects ==
    {[regionId |-> k, realmId |-> 1, profileId |-> 100 + k] :
        k \in 1..MaxProfiles}

\* The batches a request may carry: 1..MaxProfiles different profiles.
Batches ==
    UNION {{b \in [1..n -> PlayerObjects] :
               \A i, j \in 1..n : b[i] = b[j] => i = j} :
           n \in 1..MaxProfiles}

\* StarCraft2API.getRegionNameById(regionId)[0]
RegionName(regionId) ==
    CASE regionId = 1 -> "us"
      [] regionId = 2 -> "eu"
      [] regionId = 3 -> "kr"
      [] OTHER -> Undefined

\* A getProfile body the transformations accept: a player without a clan.
ProfileFull ==
    [summary |-> [portrait |-> "portrait.jpg", displayName |-> "Neo"],
     career |-> [current1v1LeagueName |-> "DIAMOND",
                 currentBestTeamLeagueName |-> "MASTER",
                 totalCareerGames |-> 20,
                 best1v1Finish |-> [leagueName |-> "Master"]],
     snapshot |-> [seasonSnapshot |-> ("1v1" :> [totalWins |-> 3])
                                      @@ ("2v2" :> [totalWins |-> 2]),
                   totalRankedSeasonGamesPlayed |-> 10]]

\* A getProfile body without a season snapshot: getStats throws on it.
ProfileNoSnapshot ==
    [summary |-> [portrait |-> "portrait.jpg", displayName |-> "Neo"],
     career |-> [current1v1LeagueName |-> "DIAMOND",
                 totalCareerGames |-> 20]]

ProfileResponses == {ProfileFull}

MatchHistoryResponses ==
    {<<[type |-> "Custom", date |-> 1, decision |-> "Loss", map |-> "A"],
       [type |-> "1v1", date |-> 1000, decision |-> "Win", map |-> "X"]>>}

\* Ladder summaries with 0..MaxLadders memberships, ladder ids 1, 2, ...
LadderSummaryResponses ==
    {[allLadderMemberships |-> [k \in 1..n |-> [ladderId |-> k]]] :
        n \in 0..MaxLadders}

\* The getLadder body of ladder ladderId for the player profileId.
LadderBody(profileId, ladderId) ==
    [ladderTeams |->
        <<[wins |-> 1, losses |-> 2,
           teamMembers |-> <<[id |-> 999, displayName |-> "Other",
                              favoriteRace |-> "zerg"]>>],
          [wins |-> 7, losses |-> ladderId,
           teamMembers |-> <<[id |-> profileId, displayName |-> "Neo",
                              favoriteRace |-> "terran"]>>]>>,
     ranksAndPools |-> <<[rank |-> 4, mmr |-> 3500]>>,
     currentLadderMembership |->
        [localizedGameMode |-> <<"1v1", "Diamond">>]]

\* A getLadder body in which no team lists the player: the destructuring
\* of getPlayerLadderInfo throws on it.
LadderBodyWithoutPlayer(ladderId) ==
    [ladderTeams |->
        <<[wins |-> 1, losses |-> 2,
           teamMembers |-> <<[id |-> 999, displayName |-> "Other",
                              favoriteRace |-> "zerg"]>>]>>,
     ranksAndPools |-> <<[rank |-> 4, mmr |-> 3500]>>,
     currentLadderMembership |->
        [localizedGameMode |-> <<"1v1", "Diamond">>]]

LadderResponses(profileId, ladderId) ==
    {LadderBody(profileId, ladderId), LadderBodyWithoutPlayer(ladderId)}

-----------------------------------------------------------------------------
(* JSON: a text is held as the tree it encodes.  JSON.stringify drops the  *)
(* properties whose value is undefined and writes NaN and Infinity as null *)

Defined(obj, fields) == {f \in fields : Has(obj, f) /\ obj[f] # Undefined}

\* The properties of obj among fields (all strings) that JSON keeps.
KeepDefined(obj, fields) == [f \in Defined(obj, fields) |-> obj[f]]

EncodeNumber(x) == IF x.kind \in {"NaN", "Infinity"} THEN JsonNull ELSE x

EncodePayload(payload) ==
    IF ~Has(payload, "heading") THEN EmptyObject
    ELSE [heading |->
             [portrait |-> KeepDefined(payload.heading.portrait,
                                       {"url", "frame"}),
              player |->
                 [clan |-> KeepDefined(payload.heading.player.clan,
                                       {"name", "tag"})]
                 @@ KeepDefined(payload.heading.player, {"name", "server"})],
          details |->
             [snapshot |-> payload.details.snapshot,
              stats |-> [payload.details.stats EXCEPT
                            !.seasonWinRatio = EncodeNumber(@)],
              history |-> payload.details.history]]

\* data is { profiles: [...] }
JSONstringify(data) ==
    [json |-> [profiles |-> [i \in 1..Len(data.profiles) |->
                                EncodePayload(data.profiles[i])]]]

JsNull == [null |-> TRUE]

\* JSON.parse(null) is null: the argument is converted to the text "null".
JSONparse(text) == IF Has(text, "json") THEN text.json ELSE JsNull

-----------------------------------------------------------------------------
(* The cache backend and the plugin's three cache helpers *)

ttl == 60

CacheSegment(channelId) == <<"viewer-", channelId>>

Segments == {CacheSegment(ch) : ch \in ChannelIds}

Missing == [present |-> FALSE]

RedisNil == [nil |-> TRUE]

\* redis GET: the stored text, or nil for a key that is absent or expired.
RedisGet(segment) ==
    IF cache[segment].present THEN cache[segment].value ELSE RedisNil

\* The reply of a GET that found entry.
RedisGetOf(entry) == IF entry.present THEN entry.value ELSE RedisNil

\* A GET reply is truthy when it is a non-empty text.
TruthyReply(reply) == Has(reply, "json")

\* isDataCached, given the reply of its GET (none is issued when inactive).
isDataCached(reply) == IF cacheActive THEN TruthyReply(reply) ELSE FALSE

getCachedObject_IgnoresFlag(reply) == reply

\* getCachedObject, given the reply of its GET.
getCachedObject(reply) == IF cacheActive THEN reply ELSE [json |-> EmptyObject]

NoWrite == [pc |-> "none"]

cacheObject_FixedSegment(segment, data, seconds) ==
    IF ~cacheActive THEN [pc |-> "disabled"]
    ELSE [pc |-> "set", segment |-> CacheSegment("c1"),
          text |-> JSONstringify(data), ttl |-> seconds]

\* cacheObject, up to its first await: the text is encoded and SET is issued.
cacheObject(segment, data, seconds) ==
    IF ~cacheActive THEN [pc |-> "disabled"]
    ELSE [pc |-> "set", segment |-> segment, text |-> JSONstringify(data),
          ttl |-> seconds]

RedisSet_KeepsExisting(segment, text) ==
    IF cache[segment].present THEN cache
    ELSE [cache EXCEPT ![segment] =
             [present |-> TRUE, value |-> text, expiring |-> FALSE, ttl |-> 0]]

\* redis SET key value: replaces the value and clears any expiry.
RedisSet(segment, text) ==
    [cache EXCEPT ![segment] =
        [present |-> TRUE, value |-> text, expiring |-> FALSE, ttl |-> 0]]

\* redis EXPIRE key seconds: no effect on a key that does not exist.
RedisExpire(segment, seconds) ==
    IF cache[segment].present
    THEN [cache EXCEPT ![segment].expiring = TRUE, ![segment].ttl = seconds]
    ELSE cache

-----------------------------------------------------------------------------
(* Pacing *)

BaseDelay == 1000

NotAPromise == [thenable |-> FALSE, timer |-> 0]

TimerPromise(ms) == [thenable |-> TRUE, timer |-> ms]

\* sleep creates the timer promise and drops it: it returns undefined.
sleep(ms) == NotAPromise

\* The time an await of v suspends the caller for.
AwaitDelay(v) == IF v.thenable THEN v.timer ELSE 0

-----------------------------------------------------------------------------
(* One getProfileData pipeline.  A pipeline record holds the upstream call *)
(* in flight (pc), the time the pipeline was suspended between the         *)
(* previous step and the issue of that call (waited), the local constants  *)
(* assigned so far (locals) and the getLadderData calls of getSnapshot     *)
(* (ladders).  Once getProfileData has returned, the record holds the      *)
(* value returned (result), whether an upstream call failed or delivered   *)
(* a body the transformations reject (failed), the parts of the payload    *)
(* that had been computed by then (filled), and the number of getLadder    *)
(* calls of the pipeline that were still in flight then (pending).         *)

\* getProfileData is called: getProfile is issued before the first await.
PipeStart ==
    [pc |-> "getProfile", waited |-> 0, locals |-> EmptyObject,
     ladders |-> <<>>]

Parts == {"heading", "snapshot", "stats", "history"}

\* The value of a profile slot whose pipeline failed.
FailureMarker == EmptyObject

Returned(value) ==
    [pc |-> "resolved", result |-> value, failed |-> FALSE, filled |-> Parts,
     pending |-> 0]

\* The catch clause of getProfileData.
CatchResult_Partial(locals) ==
    IF Has(locals, "heading") THEN [heading |-> locals.heading]
    ELSE EmptyObject

CatchResult(locals) == EmptyObject

Caught(locals) ==
    [pc |-> "resolved", result |-> CatchResult(locals), failed |-> TRUE,
     filled |-> DOMAIN locals \cap Parts, pending |-> 0]

\* The getLadderData calls of the pipeline whose getLadder has not replied.
InFlight(p) == {k \in 1..Len(p.ladders) : ~Has(p.ladders[k], "info")}

\* Promise.all of getSnapshot rejects on the first rejection: the catch
\* clause runs while the other getLadder calls are still in flight.
CaughtInSnapshot(p, k) ==
    [Caught(p.locals) EXCEPT !.pending = Cardinality(InFlight(p) \ {k})]

OnProfile_SkipsHistory(p, index, body) ==
    [p EXCEPT !.pc = "getLadderSummary",
              !.waited = AwaitDelay(sleep((index + 1) * BaseDelay)),
              !.locals = [profileData |-> body, matchHistoryData |-> <<>>]]

\* getProfile resolved with body.
OnProfile(p, index, body) ==
    [p EXCEPT !.pc = "getLegacyMatchHistory",
              !.waited = AwaitDelay(sleep((index + 1) * BaseDelay)),
              !.locals = [profileData |-> body]]

\* getLegacyMatchHistory resolved with matches.
OnMatchHistory(p, index, matches) ==
    [p EXCEPT !.pc = "getLadderSummary",
              !.waited = AwaitDelay(sleep((index + 1) * BaseDelay)),
              !.locals = @ @@ [matchHistoryData |-> matches]]

\* The statements of getProfileData after getSnapshot resolved.
Finish(locals, snapshot) ==
    LET stats == getStats(locals.profileData)
        history == getMatchHistory(locals.matchHistoryData)
    IN  IF IsError(stats)
        THEN Caught(locals @@ [snapshot |-> snapshot])
        ELSE Returned([heading |-> locals.heading,
                       details |-> [snapshot |-> snapshot,
                                    stats |-> stats,
                                    history |-> history]])

\* getLadderSummary resolved with summary: heading, then getSnapshot, which
\* calls getLadderData for every membership; each sleeps by its own index
\* before it issues getLadder.
OnLadderSummary(p, profile, index, summary) ==
    LET heading == getHeading(p.locals.profileData,
                              RegionName(profile.regionId))
        locals == p.locals @@ [ladderSummaryData |-> summary]
        waited == AwaitDelay(sleep((index + 1) * BaseDelay))
        ladderIds == [k \in 1..Len(summary.allLadderMemberships) |->
                         summary.allLadderMemberships[k].ladderId]
    IN  IF IsError(heading) THEN Caught(locals)
        ELSE IF Len(ladderIds) = 0
        THEN Finish(locals @@ [heading |-> heading], <<>>)
        ELSE [p EXCEPT
                !.pc = "getSnapshot",
                !.waited = waited,
                !.locals = locals @@ [heading |-> heading],
                !.ladders =
                    [k \in 1..Len(ladderIds) |->
                        [ladderId |-> ladderIds[k],
                         waited |-> AwaitDelay(sleep(((k - 1) + 1)
                                                     * BaseDelay))]]]

\* getLadder for the k-th membership resolved with body.
OnLadder(p, profile, k, body) ==
    LET info == getPlayerLadderInfo(body, profile.profileId)
        ladders == [p.ladders EXCEPT ![k] = @ @@ [info |-> info]]
    IN  IF IsError(info) THEN CaughtInSnapshot(p, k)
        ELSE IF \A j \in 1..Len(ladders) : Has(ladders[j], "info")
        THEN Finish(p.locals, [j \in 1..Len(ladders) |-> ladders[j].info])
        ELSE [p EXCEPT !.ladders = ladders]

\* An upstream call of the pipeline rejected: the call in flight, or the
\* getLadder call of getSnapshot that is the first to reply.
OnReject(p) ==
    IF p.pc = "getSnapshot"
    THEN CaughtInSnapshot(p, CHOOSE k \in InFlight(p) : TRUE)
    ELSE Caught(p.locals)

-----------------------------------------------------------------------------
(* The persistent store of channel configurations, before any call *)

StoreChannelIds == {1, 2}

Ops == 1..MaxOps

NoConfig == [present |-> FALSE]

IdleOp == [pc |-> "idle"]

NeverSaved == [any |-> FALSE]

StoreIdle ==
    /\ db = [ch \in StoreChannelIds |-> NoConfig]
    /\ op = [o \in Ops |-> IdleOp]
    /\ saved = [ch \in StoreChannelIds |-> NeverSaved]

-----------------------------------------------------------------------------
(* getData and getFreshData *)

NoRequest == [channelId |-> "", profiles |-> <<>>]

NoValue == [pending |-> TRUE]

EmptyArray == <<>>

Segment(c) == CacheSegment(req[c].channelId)

\* profiles.map(getProfileData): every pipeline issues getProfile at once.
StartPipes(profiles) == [i \in 1..Len(profiles) |-> PipeStart]

\* The condition of the if statement of getData.
TakesCachedBranch_Never(isItCached) == FALSE

TakesCachedBranch(isItCached) == cacheActive /\ isItCached

Init ==
    /\ cacheActive \in BOOLEAN
    /\ cache = [k \in Segments |-> Missing]
    /\ pc = [c \in Calls |-> "idle"]
    /\ req = [c \in Calls |-> NoRequest]
    /\ seen = [c \in Calls |-> EmptyObject]
    /\ pipe = [c \in Calls |-> <<>>]
    /\ ret = [c \in Calls |-> NoValue]
    /\ wr = [c \in Calls |-> NoWrite]
    /\ held = [c \in Calls |-> FALSE]
    /\ fn = "none"
    /\ arg = EmptyObject
    /\ out = EmptyObject
    /\ refreshGiven = [c \in Calls |-> FALSE]
    /\ StoreIdle

GetData_RefreshBypasses(c, channelId, profiles, refresh) ==
    /\ pc[c] = "idle"
    /\ \A b \in Calls : b < c => pc[b] # "idle"
    /\ req' = [req EXCEPT ![c] = [channelId |-> channelId,
                                  profiles |-> profiles]]
    /\ IF cacheActive /\ ~refresh
       THEN /\ pc' = [pc EXCEPT ![c] = "isDataCached"]
            /\ pipe' = pipe
       ELSE /\ pc' = [pc EXCEPT ![c] = "getFreshData"]
            /\ pipe' = [pipe EXCEPT ![c] = StartPipes(profiles)]
    /\ UNCHANGED <<held, cacheActive, cache, seen, ret, wr,
                   pureVars, storeVars>>

\* getData is called.  Its refresh parameter is not destructured.  With the
\* cache active the GET of isDataCached is issued; otherwise isDataCached
\* resolves to false and getFreshData starts.
GetData(c, channelId, profiles, refresh) ==
    /\ pc[c] = "idle"
    /\ \A b \in Calls : b < c => pc[b] # "idle"
    /\ req' = [req EXCEPT ![c] = [channelId |-> channelId,
                                  profiles |-> profiles]]
    /\ IF cacheActive
       THEN /\ pc' = [pc EXCEPT ![c] = "isDataCached"]
            /\ pipe' = pipe
       ELSE /\ pc' = [pc EXCEPT ![c] = "getFreshData"]
            /\ pipe' = [pipe EXCEPT ![c] = StartPipes(profiles)]
    /\ UNCHANGED <<held, cacheActive, cache, seen, ret, wr,
                   pureVars, storeVars>>

\* The GET of isDataCached replied.
IsDataCachedResolve(c) ==
    /\ pc[c] = "isDataCached"
    /\ seen' = [seen EXCEPT ![c] = [check |-> cache[Segment(c)]]]
    /\ IF TakesCachedBranch(isDataCached(RedisGet(Segment(c))))
       THEN /\ pc' = [pc EXCEPT ![c] = "getCachedObject"]
            /\ pipe' = pipe
       ELSE /\ pc' = [pc EXCEPT ![c] = "getFreshData"]
            /\ pipe' = [pipe EXCEPT ![c] = StartPipes(req[c].profiles)]
    /\ UNCHANGED <<held, cacheActive, cache, req, ret, wr,
                   pureVars, storeVars, refreshGiven>>

\* A GET failed: the await throws and nothing in getData catches it.
CacheReadReject(c) ==
    /\ pc[c] \in {"isDataCached", "getCachedObject"}
    /\ pc' = [pc EXCEPT ![c] = "rejected"]
    /\ UNCHANGED <<held, cacheActive, cache, req, seen, pipe,
                   ret, wr, pureVars, storeVars, refreshGiven>>

\* The GET of getCachedObject replied: the reply is parsed and returned.
GetCachedObjectResolve(c) ==
    /\ pc[c] = "getCachedObject"
    /\ seen' = [seen EXCEPT ![c] = @ @@ [read |-> cache[Segment(c)]]]
    /\ ret' = [ret EXCEPT
                  ![c] = JSONparse(getCachedObject(RedisGet(Segment(c))))]
    /\ pc' = [pc EXCEPT ![c] = "returned"]
    /\ UNCHANGED <<held, cacheActive, cache, req, pipe, wr,
                   pureVars, storeVars, refreshGiven>>

Running(c, i, call) ==
    /\ pc[c] = "getFreshData"
    /\ i \in 1..Len(pipe[c])
    /\ pipe[c][i].pc = call

Step(c, i, p) ==
    /\ pipe' = [pipe EXCEPT ![c][i] = p]
    /\ UNCHANGED <<held, cacheActive, cache, pc, req, seen,
                   ret, wr, pureVars, storeVars, refreshGiven>>

GetProfileResolve(c, i, body) ==
    /\ Running(c, i, "getProfile")
    /\ Step(c, i, OnProfile(pipe[c][i], i - 1, body))

GetLegacyMatchHistoryResolve(c, i, matches) ==
    /\ Running(c, i, "getLegacyMatchHistory")
    /\ Step(c, i, OnMatchHistory(pipe[c][i], i - 1, matches))

GetLadderSummaryResolve(c, i, summary) ==
    /\ Running(c, i, "getLadderSummary")
    /\ Step(c, i, OnLadderSummary(pipe[c][i], req[c].profiles[i], i - 1,
                                  summary))

GetLadderResolve(c, i, k) ==
    /\ Running(c, i, "getSnapshot")
    /\ k \in 1..Len(pipe[c][i].ladders)
    /\ ~Has(pipe[c][i].ladders[k], "info")
    /\ \E body \in LadderResponses(req[c].profiles[i].profileId,
                                   pipe[c][i].ladders[k].ladderId) :
          Step(c, i, OnLadder(pipe[c][i], req[c].profiles[i], k, body))

\* The call in flight of the pipeline (one of them, in getSnapshot) failed.
UpstreamReject(c, i) ==
    /\ pc[c] = "getFreshData"
    /\ i \in 1..Len(pipe[c])
    /\ pipe[c][i].pc # "resolved"
    /\ Step(c, i, OnReject(pipe[c][i]))

\* getFreshData when a failed profile rejects Promise.all: the catch clause
\* of getFreshData returns the empty array for the whole batch.
GetFreshDataReturn_RejectsTogether(c) ==
    /\ pc[c] = "getFreshData"
    /\ \A i \in 1..Len(pipe[c]) : pipe[c][i].pc = "resolved"
    /\ LET profileData == [i \in 1..Len(pipe[c]) |-> pipe[c][i].result]
           rejected == \E i \in 1..Len(pipe[c]) : pipe[c][i].failed
       IN  /\ wr' = [wr EXCEPT ![c] =
                        IF cacheActive /\ ~rejected
                        THEN cacheObject(Segment(c),
                                         [profiles |-> profileData], ttl)
                        ELSE NoWrite]
           /\ ret' = [ret EXCEPT ![c] =
                         IF rejected THEN EmptyArray
                         ELSE [profiles |-> profileData]]
    /\ pc' = [pc EXCEPT ![c] = "returned"]
    /\ UNCHANGED <<held, cacheActive, cache, req, seen, pipe,
                   pureVars, storeVars, refreshGiven>>

\* getFreshData with the cache write awaited inside its try block.
GetFreshDataReturn_AwaitsWrite(c) ==
    /\ pc[c] = "getFreshData"
    /\ \A i \in 1..Len(pipe[c]) : pipe[c][i].pc = "resolved"
    /\ LET profileData == [i \in 1..Len(pipe[c]) |-> pipe[c][i].result]
       IN  IF cacheActive /\ wr[c].pc = "none"
           THEN /\ wr' = [wr EXCEPT ![c] =
                             cacheObject(Segment(c),
                                         [profiles |-> profileData], ttl)]
                /\ UNCHANGED <<pc, ret>>
           ELSE /\ wr[c].pc \in {"none", "cached", "rejected"}
                /\ ret' = [ret EXCEPT ![c] =
                              IF wr[c].pc = "rejected" THEN EmptyArray
                              ELSE [profiles |-> profileData]]
                /\ pc' = [pc EXCEPT ![c] = "returned"]
                /\ wr' = wr
    /\ UNCHANGED <<held, cacheActive, cache, req, seen, pipe,
                   pureVars, storeVars, refreshGiven>>

\* getFreshData when it returns as soon as one pipeline has returned, the
\* slots of the others being failure markers.
GetFreshDataReturn_ReturnsOnFirst(c) ==
    /\ pc[c] = "getFreshData"
    /\ \E i \in 1..Len(pipe[c]) : pipe[c][i].pc = "resolved"
    /\ LET profileData == [i \in 1..Len(pipe[c]) |->
                              IF pipe[c][i].pc = "resolved"
                              THEN pipe[c][i].result ELSE FailureMarker]
       IN  /\ wr' = [wr EXCEPT ![c] =
                        IF cacheActive
                        THEN cacheObject(Segment(c),
                                         [profiles |-> profileData], ttl)
                        ELSE NoWrite]
           /\ ret' = [ret EXCEPT ![c] = [profiles |-> profileData]]
    /\ pc' = [pc EXCEPT ![c] = "returned"]
    /\ UNCHANGED <<held, cacheActive, cache, req, seen, pipe,
                   pureVars, storeVars, refreshGiven>>

\* getFreshData when only a batch without failure marker is cached.
GetFreshDataReturn_SkipsFailedBatches(c) ==
    /\ pc[c] = "getFreshData"
    /\ \A i \in 1..Len(pipe[c]) : pipe[c][i].pc = "resolved"
    /\ LET profileData == [i \in 1..Len(pipe[c]) |-> pipe[c][i].result]
           failed == \E i \in 1..Len(pipe[c]) : pipe[c][i].failed
       IN  /\ wr' = [wr EXCEPT ![c] =
                        IF cacheActive /\ ~failed
                        THEN cacheObject(Segment(c),
                                         [profiles |-> profileData], ttl)
                        ELSE NoWrite]
           /\ ret' = [ret EXCEPT ![c] = [profiles |-> profileData]]
    /\ pc' = [pc EXCEPT ![c] = "returned"]
    /\ UNCHANGED <<held, cacheActive, cache, req, seen, pipe,
                   pureVars, storeVars, refreshGiven>>

\* Promise.all resolved: cacheObject is called and not awaited, then
\* getFreshData returns and getData returns its value.
GetFreshDataReturn(c) ==
    /\ pc[c] = "getFreshData"
    /\ \A i \in 1..Len(pipe[c]) : pipe[c][i].pc = "resolved"
    /\ LET profileData == [i \in 1..Len(pipe[c]) |-> pipe[c][i].result]
       IN  /\ wr' = [wr EXCEPT ![c] =
                        IF cacheActive
                        THEN cacheObject(Segment(c),
                                         [profiles |-> profileData], ttl)
                        ELSE NoWrite]
           /\ ret' = [ret EXCEPT ![c] = [profiles |-> profileData]]
    /\ pc' = [pc EXCEPT ![c] = "returned"]
    /\ UNCHANGED <<held, cacheActive, cache, req, seen, pipe,
                   pureVars, storeVars, refreshGiven>>

\* The call ran a batch assembly, and in backend its segment holds the
\* encoded result of that assembly with the configured expiry.
Holds(c, backend) ==
    /\ pc[c] = "returned"
    /\ pipe[c] # <<>>
    /\ backend[Segment(c)] =
          [present |-> TRUE, value |-> JSONstringify(ret[c]),
           expiring |-> TRUE, ttl |-> ttl]

\* cache.set of cacheObject succeeded: cache.expire is issued.
CacheSetResolve(c) ==
    /\ wr[c].pc = "set"
    /\ cache' = RedisSet(wr[c].segment, wr[c].text)
    /\ wr' = [wr EXCEPT ![c].pc = "expire"]
    /\ UNCHANGED <<held, cacheActive, pc, req, seen, pipe,
                   ret, pureVars, storeVars, refreshGiven>>

\* cache.expire of cacheObject succeeded.
CacheExpireResolve(c) ==
    /\ wr[c].pc = "expire"
    /\ cache' = RedisExpire(wr[c].segment, wr[c].ttl)
    /\ wr' = [wr EXCEPT ![c].pc = "cached"]
    /\ held' = [d \in Calls |-> held[d] \/ Holds(d, cache')]
    /\ UNCHANGED <<cacheActive, pc, req, seen, pipe, ret,
                   pureVars, storeVars, refreshGiven>>

\* cache.set or cache.expire failed: the promise of cacheObject rejects,
\* and nothing handles the rejection.
CacheWriteReject(c) ==
    /\ wr[c].pc \in {"set", "expire"}
    /\ wr' = [wr EXCEPT ![c].pc = "rejected"]
    /\ UNCHANGED <<held, cacheActive, cache, pc, req, seen,
                   pipe, ret, pureVars, storeVars, refreshGiven>>

\* The expiry of an entry elapsed.
Evict(segment) ==
    /\ cache[segment].present
    /\ cache[segment].expiring
    /\ cache' = [cache EXCEPT ![segment] = Missing]
    /\ UNCHANGED <<held, cacheActive, pc, req, seen, pipe,
                   ret, wr, pureVars, storeVars, refreshGiven>>

Next ==
    \/ \E c \in Calls, ch \in ChannelIds, b \in Batches, r \in BOOLEAN :
          GetData(c, ch, b, r) /\ UNCHANGED refreshGiven
    \/ \E c \in Calls : IsDataCachedResolve(c)
    \/ \E c \in Calls : CacheReadReject(c)
    \/ \E c \in Calls : GetCachedObjectResolve(c)
    \/ \E c \in Calls, i \in 1..MaxProfiles, body \in ProfileResponses :
          GetProfileResolve(c, i, body)
    \/ \E c \in Calls, i \in 1..MaxProfiles, m \in MatchHistoryResponses :
          GetLegacyMatchHistoryResolve(c, i, m)
    \/ \E c \in Calls, i \in 1..MaxProfiles, s \in LadderSummaryResponses :
          GetLadderSummaryResolve(c, i, s)
    \/ \E c \in Calls, i \in 1..MaxProfiles, k \in 1..MaxLadders :
          GetLadderResolve(c, i, k)
    \/ \E c \in Calls, i \in 1..MaxProfiles : UpstreamReject(c, i)
    \/ \E c \in Calls : GetFreshDataReturn(c)
    \/ \E c \in Calls : CacheSetResolve(c)
    \/ \E c \in Calls : CacheExpireResolve(c)
    \/ \E c \in Calls : CacheWriteReject(c)
    \/ \E k \in Segments : Evict(k)

Spec == Init /\ [][Next]_vars

-----------------------------------------------------------------------------
(* One getData call followed on its own, from a cache that an earlier call *)
(* may have filled, with the refresh parameter it was given recorded and   *)
(* with every cache read and every upstream call completing.               *)

\* Ladder summaries with 0..n memberships, ladder ids 1, 2, ...
LadderSummariesUpTo(n) ==
    {[allLadderMemberships |-> [k \in 1..m |-> [ladderId |-> k]]] :
        m \in 0..n}

\* The entry an earlier call left whose only profile failed.
EarlierEntry ==
    [present |-> TRUE,
     value |-> JSONstringify([profiles |-> <<FailureMarker>>]),
     expiring |-> TRUE, ttl |-> ttl]

InitOneCall ==
    /\ cacheActive \in BOOLEAN
    /\ \E e \in {Missing, EarlierEntry} :
          /\ ~cacheActive => e = Missing
          /\ cache = [k \in Segments |->
                         IF k = CacheSegment("c1") THEN e ELSE Missing]
    /\ pc = [c \in Calls |-> "idle"]
    /\ req = [c \in Calls |-> NoRequest]
    /\ seen = [c \in Calls |-> EmptyObject]
    /\ pipe = [c \in Calls |-> <<>>]
    /\ ret = [c \in Calls |-> NoValue]
    /\ wr = [c \in Calls |-> NoWrite]
    /\ held = [c \in Calls |-> FALSE]
    /\ fn = "none"
    /\ arg = EmptyObject
    /\ out = EmptyObject
    /\ refreshGiven = [c \in Calls |-> FALSE]
    /\ StoreIdle

\* The one call is made, and the refresh parameter given is recorded.
GetDataOnce(channelId, profiles, refresh) ==
    /\ GetData(1, channelId, profiles, refresh)
    /\ refreshGiven' = [refreshGiven EXCEPT ![1] = refresh]

\* A cache read of the call completes.
CacheReadDone(c) ==
    \/ IsDataCachedResolve(c)
    \/ GetCachedObjectResolve(c)
    \/ CacheReadReject(c)

\* An upstream call of pipeline i of the call completes.
UpstreamDone(c, i) ==
    \/ \E body \in ProfileResponses : GetProfileResolve(c, i, body)
    \/ \E m \in MatchHistoryResponses : GetLegacyMatchHistoryResolve(c, i, m)
    \/ \E s \in LadderSummariesUpTo(MaxSiblings) :
          GetLadderSummaryResolve(c, i, s)
    \/ \E k \in 1..MaxSiblings : GetLadderResolve(c, i, k)
    \/ UpstreamReject(c, i)

NextOneCall ==
    \/ \E ch \in ChannelIds, b \in Batches, r \in BOOLEAN :
          GetDataOnce(ch, b, r)
    \/ \E c \in Calls : IsDataCachedResolve(c)
    \/ \E c \in Calls : CacheReadReject(c)
    \/ \E c \in Calls : GetCachedObjectResolve(c)
    \/ \E c \in Calls, i \in 1..MaxProfiles, body \in ProfileResponses :
          GetProfileResolve(c, i, body)
    \/ \E c \in Calls, i \in 1..MaxProfiles, m \in MatchHistoryResponses :
          GetLegacyMatchHistoryResolve(c, i, m)
    \/ \E c \in Calls, i \in 1..MaxProfiles,
          s \in LadderSummariesUpTo(MaxSiblings) :
          GetLadderSummaryResolve(c, i, s)
    \/ \E c \in Calls, i \in 1..MaxProfiles, k \in 1..MaxSiblings :
          GetLadderResolve(c, i, k)
    \/ \E c \in Calls, i \in 1..MaxProfiles : UpstreamReject(c, i)
    \/ \E c \in Calls : GetFreshDataReturn(c)
    \/ \E c \in Calls : CacheSetResolve(c)
    \/ \E c \in Calls : CacheExpireResolve(c)
    \/ \E c \in Calls : CacheWriteReject(c)
    \/ \E k \in Segments : Evict(k)

\* Every cache read and every upstream call in flight completes, and the
\* continuation of a resolved Promise.all runs.  Nothing is assumed of the
\* cache write or of the expiry of an entry.
OneCallFairness ==
    /\ \A c \in Calls : WF_vars(CacheReadDone(c))
    /\ \A c \in Calls : \A i \in 1..MaxProfiles : WF_vars(UpstreamDone(c, i))
    /\ \A c \in Calls : WF_vars(GetFreshDataReturn(c))

OneCallSpec == InitOneCall /\ [][NextOneCall]_vars /\ OneCallFairness

-----------------------------------------------------------------------------
(* The pure transformations, applied to inputs drawn from bounded sets *)

RankLabels ==
    {Undefined, "", "Bronze", "gold", "Diamond", "DIAMOND", "Master",
     "Grandmaster", "Unranked", "Legend"}

RankArgs ==
    {[for |-> "calculateHighestRank", soloRank |-> a, teamRank |-> b] :
        a \in RankLabels, b \in RankLabels}

GameModes == {"1v1", "2v2"}

SeasonSnapshots ==
    UNION {[modes -> [totalWins : 0..MaxWins]] : modes \in SUBSET GameModes}

Snapshots ==
    {[seasonSnapshot |-> ss] : ss \in SeasonSnapshots}
    \cup {[seasonSnapshot |-> ss, totalRankedSeasonGamesPlayed |-> g] :
             ss \in SeasonSnapshots, g \in 0..MaxGames}

StatsArgs ==
    {[for |-> "getStats",
      data |-> [career |-> ProfileFull.career, snapshot |-> snap]] :
        snap \in Snapshots}
    \cup {[for |-> "getStats", data |-> ProfileNoSnapshot]}

RawMatches ==
    {[type |-> t, date |-> d, decision |-> r, map |-> "X"] :
        t \in {"Custom", "1v1", "2v2"}, d \in {0, 1000}, r \in {"Win", "Loss"}}

MatchArgs ==
    {[for |-> "getMatchHistory", matches |-> m] :
        m \in UNION {[1..n -> RawMatches] : n \in 0..2}}

InitPure ==
    /\ cacheActive = FALSE
    /\ cache = [k \in Segments |-> Missing]
    /\ pc = [c \in Calls |-> "idle"]
    /\ req = [c \in Calls |-> NoRequest]
    /\ seen = [c \in Calls |-> EmptyObject]
    /\ pipe = [c \in Calls |-> <<>>]
    /\ ret = [c \in Calls |-> NoValue]
    /\ wr = [c \in Calls |-> NoWrite]
    /\ held = [c \in Calls |-> FALSE]
    /\ fn = "none"
    /\ \/ arg \in RankArgs
       \/ arg \in StatsArgs
       \/ arg \in MatchArgs
    /\ out = EmptyObject
    /\ refreshGiven = [c \in Calls |-> FALSE]
    /\ StoreIdle

Apply(name, result) ==
    /\ fn = "none"
    /\ arg.for = name
    /\ fn' = name
    /\ out' = IF IsError(result) THEN [threw |-> result]
              ELSE [value |-> result]
    /\ UNCHANGED <<arg, viewerVars, storeVars, refreshGiven>>

ApplyCalculateHighestRank ==
    /\ arg.for = "calculateHighestRank"
    /\ Apply("calculateHighestRank",
             [frame |-> calculateHighestRank(arg.soloRank, arg.teamRank)])

ApplyGetStats ==
    /\ arg.for = "getStats"
    /\ Apply("getStats", getStats(arg.data))

ApplyGetMatchHistory ==
    /\ arg.for = "getMatchHistory"
    /\ Apply("getMatchHistory", [history |-> getMatchHistory(arg.matches)])

NextPure ==
    \/ ApplyCalculateHighestRank
    \/ ApplyGetStats
    \/ ApplyGetMatchHistory

PureSpec == InitPure /\ [][NextPure]_vars

-----------------------------------------------------------------------------
(* The db plugin: save and get over the ChannelConfig collection.  The      *)
(* collection maps a channelId to one document {channelId, profiles}; a     *)
(* store operation either is applied and resolves, or is rejected and has   *)
(* no effect.                                                               *)

maxPlayerProfileCount == 2

\* The lists of profiles a caller gives to save.
SavedLists == UNION {[1..n -> PlayerObjects] : n \in 0..MaxSaved}

Configs ==
    {[channelId |-> ch, data |-> d] : ch \in StoreChannelIds, d \in SavedLists}

\* Array.prototype.slice for 0 <= start: the elements start .. end - 1, as
\* far as the array has them.
slice(array, start, end) ==
    SubSeq(array, start + 1, IF end < Len(array) THEN end ELSE Len(array))

save_NoSlice(config) ==
    [pc |-> "findOneAndUpdate", kind |-> "save", config |-> config,
     filter |-> [channelId |-> config.channelId],
     update |-> [profiles |-> config.data]]

\* save, up to its await: findOneAndUpdate is issued.
save(config) ==
    [pc |-> "findOneAndUpdate", kind |-> "save", config |-> config,
     filter |-> [channelId |-> config.channelId],
     update |-> [profiles |-> slice(config.data, 0, maxPlayerProfileCount)]]

\* get, up to its await: findOne is issued.
get(channelId) ==
    [pc |-> "findOne", kind |-> "get", filter |-> [channelId |-> channelId]]

\* findOneAndUpdate with upsert: the document of the channel gets the
\* fields of update, and is created when there is none.
FindOneAndUpdate(filter, update) ==
    [db EXCEPT ![filter.channelId] =
        [present |-> TRUE, channelId |-> filter.channelId,
         profiles |-> update.profiles]]

\* findOne: the document of the channel, or null (NoConfig).
FindOne(filter) == db[filter.channelId]

StoreError == [error |-> "MongoError"]

saveReturn == [returned |-> TRUE]

\* The catch clause of save.
saveCatch(error) == [returned |-> FALSE]

\* The statements of get after findOne resolved with data.
getReturn(data) ==
    IF data.present
    THEN [status |-> 200, channelId |-> data.channelId,
          profiles |-> data.profiles]
    ELSE [status |-> 404, message |-> "No config found"]

getCatch_NotFound(error) == [status |-> 404, message |-> "No config found"]

\* The catch clause of get.
getCatch(error) == [status |-> 400]

\* The list given to the last save for the channel that returned true.
Remember(o, result) ==
    IF result = [returned |-> TRUE]
    THEN [saved EXCEPT ![op[o].filter.channelId] =
             [any |-> TRUE, data |-> op[o].config.data]]
    ELSE saved

\* The call returned result; failed tells whether its store operation was
\* rejected.  For a get, was is the last list saved for its channel then.
Done(o, failed, result) ==
    [pc |-> "done", kind |-> op[o].kind, call |-> op[o], failed |-> failed,
     result |-> result]
    @@ IF op[o].kind = "get"
       THEN [was |-> saved[op[o].filter.channelId]]
       ELSE EmptyObject

\* Calls are numbered in the order they are made.
NextToCall(o) ==
    /\ op[o].pc = "idle"
    /\ \A n \in Ops : n < o => op[n].pc # "idle"

SaveCall(o, config) ==
    /\ NextToCall(o)
    /\ op' = [op EXCEPT ![o] = save(config)]
    /\ UNCHANGED <<db, saved, viewerVars, pureVars, refreshGiven>>

GetCall(o, channelId) ==
    /\ NextToCall(o)
    /\ op' = [op EXCEPT ![o] = get(channelId)]
    /\ UNCHANGED <<db, saved, viewerVars, pureVars, refreshGiven>>

FindOneAndUpdateResolve(o) ==
    /\ op[o].pc = "findOneAndUpdate"
    /\ db' = FindOneAndUpdate(op[o].filter, op[o].update)
    /\ op' = [op EXCEPT ![o] = Done(o, FALSE, saveReturn)]
    /\ saved' = Remember(o, saveReturn)
    /\ UNCHANGED <<viewerVars, pureVars, refreshGiven>>

FindOneAndUpdateReject(o) ==
    /\ op[o].pc = "findOneAndUpdate"
    /\ op' = [op EXCEPT ![o] = Done(o, TRUE, saveCatch(StoreError))]
    /\ saved' = Remember(o, saveCatch(StoreError))
    /\ UNCHANGED <<db, viewerVars, pureVars, refreshGiven>>

FindOneResolve(o) ==
    /\ op[o].pc = "findOne"
    /\ op' = [op EXCEPT ![o] =
                 Done(o, FALSE, getReturn(FindOne(op[o].filter)))]
    /\ UNCHANGED <<db, saved, viewerVars, pureVars, refreshGiven>>

FindOneReject(o) ==
    /\ op[o].pc = "findOne"
    /\ op' = [op EXCEPT ![o] = Done(o, TRUE, getCatch(StoreError))]
    /\ UNCHANGED <<db, saved, viewerVars, pureVars, refreshGiven>>

NextStore ==
    \/ \E o \in Ops, config \in Configs : SaveCall(o, config)
    \/ \E o \in Ops, ch \in StoreChannelIds : GetCall(o, ch)
    \/ \E o \in Ops : FindOneAndUpdateResolve(o)
    \/ \E o \in Ops : FindOneAndUpdateReject(o)
    \/ \E o \in Ops : FindOneResolve(o)
    \/ \E o \in Ops : FindOneReject(o)

InitStore ==
    /\ cacheActive = FALSE
    /\ cache = [k \in Segments |-> Missing]
    /\ pc = [c \in Calls |-> "idle"]
    /\ req = [c \in Calls |-> NoRequest]
    /\ seen = [c \in Calls |-> EmptyObject]
    /\ pipe = [c \in Calls |-> <<>>]
    /\ ret = [c \in Calls |-> NoValue]
    /\ wr = [c \in Calls |-> NoWrite]
    /\ held = [c \in Calls |-> FALSE]
    /\ fn = "none"
    /\ arg = EmptyObject
    /\ out = EmptyObject
    /\ refreshGiven = [c \in Calls |-> FALSE]
    /\ StoreIdle

StoreSpec == InitStore /\ [][NextStore]_vars

-----------------------------------------------------------------------------
(* Properties of getData *)

Fresh(c) == pipe[c] # <<>>

BatchResult(c) == [i \in 1..Len(pipe[c]) |-> pipe[c][i].result]

FullPayload(r) ==
    /\ DOMAIN r = {"heading", "details"}
    /\ DOMAIN r.heading = {"portrait", "player"}
    /\ DOMAIN r.details = {"snapshot", "stats", "history"}
    /\ {"totalCareerGames", "seasonWinRatio", "highestSoloRank",
        "highestTeamRank"} \subseteq DOMAIN r.details.stats

SawEntryAtCheck(c) == Has(seen[c], "check") /\ seen[c].check.present

SawEntryAtRead(c) == Has(seen[c], "read") /\ seen[c].read.present

\* C1: a getData call whose existence check found an entry under
\* viewer-{channelId} issues no upstream call, and when its read found the
\* entry it returns exactly the decoded text of that entry.
C1_CacheHit ==
    \A c \in Calls :
        SawEntryAtCheck(c) =>
            /\ ~Fresh(c)
            /\ pc[c] \in {"getCachedObject", "returned", "rejected"}
            /\ pc[c] = "returned" /\ SawEntryAtRead(c) =>
                   ret[c] = seen[c].read.value.json

C1_Witness ==
    \E c \in Calls :
        /\ pc[c] = "returned"
        /\ SawEntryAtCheck(c)
        /\ SawEntryAtRead(c)
        /\ Len(ret[c].profiles) = 2

\* C2 as claimed: whenever a miss ran a batch assembly with the cache
\* active and the cache write it started is over, the cache has held the
\* encoded batch result under viewer-{channelId} with the configured expiry.
C2_OriginalEntryWritten ==
    \A c \in Calls :
        cacheActive /\ pc[c] = "returned" /\ Fresh(c)
            /\ wr[c].pc \notin {"set", "expire"} => held[c]

\* C2 as amended: a call whose existence check found no entry runs one
\* pipeline per given profile; with the cache active its return starts a
\* cache write; a successful set leaves under viewer-{channelId} the encoded
\* batch result without expiry; a successful expire on an entry that still
\* exists leaves that entry with the configured expiry.
C2_MissRunsAssembly ==
    \A c \in Calls :
        /\ Has(seen[c], "check") /\ ~seen[c].check.present =>
               /\ pc[c] \in {"getFreshData", "returned"}
               /\ Len(pipe[c]) = Len(req[c].profiles)
               /\ Len(pipe[c]) > 0
        /\ pc[c] = "returned" /\ Fresh(c) /\ cacheActive =>
               wr[c].pc \in {"set", "expire", "cached", "rejected"}

C2_WriteSteps ==
    \A c \in Calls :
        /\ wr[c].pc = "set" /\ wr'[c].pc = "expire" =>
               cache'[Segment(c)] =
                   [present |-> TRUE, value |-> JSONstringify(ret[c]),
                    expiring |-> FALSE, ttl |-> 0]
        /\ wr[c].pc = "expire" /\ wr'[c].pc = "cached"
               /\ cache[Segment(c)].present =>
               cache'[Segment(c)] =
                   [cache[Segment(c)] EXCEPT !.expiring = TRUE, !.ttl = ttl]

\* C2 (amended): the assembly runs on every miss, and the cache write it
\* starts leaves the encoded batch result at the set and the configured
\* expiry at the expire, each only if that operation succeeds.
C2_Amended == []C2_MissRunsAssembly /\ [][C2_WriteSteps]_vars

C2_Witness ==
    \E c \in Calls :
        /\ Has(seen[c], "check") /\ ~seen[c].check.present
        /\ wr[c].pc = "cached"
        /\ Holds(c, cache)

\* C3: the result of a batch assembly has one slot per given profile, in
\* the order given; the slot of a profile with a failed upstream call is the
\* failure marker and every other slot is a fully populated payload of its
\* own profile.
C3_FailureIsolation ==
    \A c \in Calls :
        pc[c] = "returned" /\ Fresh(c) =>
            /\ DOMAIN ret[c] = {"profiles"}
            /\ Len(ret[c].profiles) = Len(req[c].profiles)
            /\ \A i \in 1..Len(req[c].profiles) :
                  IF pipe[c][i].failed
                  THEN ret[c].profiles[i] = EmptyObject
                  ELSE /\ FullPayload(ret[c].profiles[i])
                       /\ ret[c].profiles[i].heading.player.server =
                              RegionName(req[c].profiles[i].regionId)

C3_Witness ==
    \E c \in Calls :
        /\ pc[c] = "returned" /\ Fresh(c)
        /\ Len(req[c].profiles) = 2
        /\ pipe[c][1].failed
        /\ ~pipe[c][2].failed
        /\ FullPayload(ret[c].profiles[2])

\* C4 as claimed: no getData call rejects and no cache write rejects
\* without a handler.
C4_NoFailurePropagates ==
    \A c \in Calls : pc[c] # "rejected" /\ wr[c].pc # "rejected"

\* C5: the value getProfileData returns is the failure marker or a payload
\* with heading, snapshot, stats and history, also when the failure came
\* after some of these parts had been computed.
C5_FullOrMarker ==
    \A c \in Calls : \A i \in 1..Len(pipe[c]) :
        pipe[c][i].pc = "resolved" =>
            \/ pipe[c][i].result = EmptyObject
            \/ /\ FullPayload(pipe[c][i].result)
               /\ pipe[c][i].filled = Parts

C5_Witness ==
    \E c \in Calls : \E i \in 1..Len(pipe[c]) :
        /\ pipe[c][i].pc = "resolved"
        /\ pipe[c][i].failed
        /\ "heading" \in pipe[c][i].filled
        /\ pipe[c][i].result = EmptyObject

\* C6: getFreshData returns the batch result whatever becomes of the cache
\* write, and at its return the write it started has not completed.
C6_ResultWhateverTheWrite ==
    \A c \in Calls :
        pc[c] = "returned" /\ Fresh(c) => ret[c] = [profiles |-> BatchResult(c)]

C6_ReturnsBeforeWrite ==
    \A c \in Calls :
        pc[c] = "getFreshData" /\ pc'[c] = "returned" =>
            wr'[c].pc \in {"none", "set"}

\* C6: the result of getFreshData does not depend on the cache write, which
\* is still pending (or was never started) when getFreshData returns.
C6_WriteDoesNotAffectResult ==
    []C6_ResultWhateverTheWrite /\ [][C6_ReturnsBeforeWrite]_vars

C6_Witness ==
    \E c \in Calls :
        /\ pc[c] = "returned" /\ Fresh(c)
        /\ wr[c].pc = "rejected"
        /\ ~cache[Segment(c)].present
        /\ ret[c] = [profiles |-> BatchResult(c)]

\* C7: with the cache inactive the existence check is false and the read
\* decodes to the empty object for every segment, no cache operation is in
\* flight or done, and every getData call runs a batch assembly and returns
\* its result.
C7_CacheInactive ==
    ~cacheActive =>
        /\ \A k \in Segments :
              /\ ~isDataCached(RedisGet(k))
              /\ JSONparse(getCachedObject(RedisGet(k))) = EmptyObject
              /\ ~cache[k].present
        /\ \A c \in Calls :
              /\ wr[c].pc = "none"
              /\ pc[c] \in {"idle", "getFreshData", "returned"}
              /\ pc[c] # "idle" => Len(pipe[c]) = Len(req[c].profiles)
              /\ pc[c] = "returned" => ret[c] = [profiles |-> BatchResult(c)]

C7_Witness ==
    /\ ~cacheActive
    /\ \A c \in Calls : pc[c] = "returned" /\ Fresh(c)
    /\ \E c, d \in Calls : c # d /\ req[c].channelId = req[d].channelId

\* C8 as claimed: every paced upstream call in flight was issued at least
\* (index + 1) * 1000 ms after the preceding step of its pipeline completed.
C8_Paced ==
    \A c \in Calls : \A i \in 1..Len(pipe[c]) :
        /\ pipe[c][i].pc \in {"getLegacyMatchHistory", "getLadderSummary"} =>
               pipe[c][i].waited >= ((i - 1) + 1) * BaseDelay
        /\ pipe[c][i].pc = "getSnapshot" =>
               \A k \in 1..Len(pipe[c][i].ladders) :
                   pipe[c][i].waited + pipe[c][i].ladders[k].waited
                       >= ((i - 1) + 1) * BaseDelay

-----------------------------------------------------------------------------
(* Properties of the pure transformations *)

TotalWins(ss) == SumOver(ss, DOMAIN ss)

\* The integer nearest to n / d (d > 0), halves rounded up.
IsRounded(r, n, d) == 2 * d * r <= 2 * n + d /\ 2 * n + d < 2 * d * (r + 1)

\* C9 as claimed: for a snapshot with at least one game mode, getStats does
\* not throw and seasonWinRatio is 0 when totalRankedSeasonGamesPlayed is
\* missing or zero, and round(100 * wins / games) otherwise.
C9_SeasonWinRatio ==
    fn = "getStats" /\ Has(arg.data, "snapshot")
        /\ DOMAIN arg.data.snapshot.seasonSnapshot # {} =>
        /\ Has(out, "value")
        /\ LET snap == arg.data.snapshot
               ratio == out.value.seasonWinRatio
           IN  IF ~Has(snap, "totalRankedSeasonGamesPlayed")
                  \/ snap.totalRankedSeasonGamesPlayed = 0
               THEN ratio = Finite(0)
               ELSE /\ ratio.kind = "finite"
                    /\ IsRounded(ratio.value,
                                 100 * TotalWins(snap.seasonSnapshot),
                                 snap.totalRankedSeasonGamesPlayed)

Tier(label) ==
    IF Truthy(label) THEN indexOf(ranks, toLowerCase(label)) ELSE -1

\* C10 as claimed: the label of strictly higher tier is returned lower-cased;
\* on equal tiers the solo label (as given or lower-cased) if present, else
\* the team label if present, else the empty string.
C10_HighestRank ==
    fn = "calculateHighestRank" =>
        LET solo == arg.soloRank
            team == arg.teamRank
            frame == out.value.frame
        IN  IF Tier(solo) > Tier(team) THEN frame = toLowerCase(solo)
            ELSE IF Tier(team) > Tier(solo) THEN frame = toLowerCase(team)
            ELSE IF Truthy(solo) THEN frame \in {solo, toLowerCase(solo)}
            ELSE IF Truthy(team) THEN frame \in {team, toLowerCase(team)}
            ELSE frame = ""

RECURSIVE ExpectedHistory(_)
ExpectedHistory(matches) ==
    IF matches = <<>> THEN <<>>
    ELSE LET m == Head(matches)
             rest == ExpectedHistory(Tail(matches))
         IN  IF m.type = "Custom" THEN rest
             ELSE <<[mapName |-> m.map, mode |-> m.type,
                     result |-> IF m.decision = "Win" THEN "win" ELSE "loss",
                     date |-> m.date * 1000]>> \o rest

\* C13: getMatchHistory yields, in input order, one record per raw match
\* whose type is not "Custom" and none for a "Custom" match, with mapName the
\* map, mode the type, result the decision in lower case and date the raw
\* date times 1000.
C13_MatchHistory ==
    fn = "getMatchHistory" =>
        /\ Has(out, "value")
        /\ out.value.history = ExpectedHistory(arg.matches)

C13_Witness ==
    /\ fn = "getMatchHistory"
    /\ Len(arg.matches) = 2
    /\ arg.matches[1].type = "Custom"
    /\ arg.matches[2] = [type |-> "1v1", date |-> 1000, decision |-> "Win",
                         map |-> "X"]
    /\ out.value.history = <<[mapName |-> "X", mode |-> "1v1",
                              result |-> "win", date |-> 1000000]>>

\* The upstream call a pipeline may have in flight right after call, when it
\* is not the same call and the pipeline has not returned.
NextCall(call) ==
    CASE call = "getProfile" -> "getLegacyMatchHistory"
      [] call = "getLegacyMatchHistory" -> "getLadderSummary"
      [] call = "getLadderSummary" -> "getSnapshot"
      [] OTHER -> "resolved"

\* The constant a pipeline holds only after call completed successfully.
ResultOf(call) ==
    CASE call = "getProfile" -> "profileData"
      [] call = "getLegacyMatchHistory" -> "matchHistoryData"
      [] OTHER -> "ladderSummaryData"

C14_IssuedAfterSuccess ==
    \A c \in Calls : \A i \in 1..Len(pipe[c]) :
        LET p == pipe[c][i]
        IN  /\ p.pc = "getLegacyMatchHistory" =>
                DOMAIN p.locals = {"profileData"}
            /\ p.pc = "getLadderSummary" =>
                DOMAIN p.locals = {"profileData", "matchHistoryData"}
            /\ p.pc = "getSnapshot" =>
                /\ {"profileData", "matchHistoryData", "ladderSummaryData"}
                      \subseteq DOMAIN p.locals
                /\ Len(p.ladders) =
                      Len(p.locals.ladderSummaryData.allLadderMemberships)
            /\ p.pc # "getSnapshot" /\ p.pc # "resolved" => p.ladders = <<>>

C14_PipelineStep ==
    \A c \in Calls :
        /\ pipe[c] = <<>> =>
              \A i \in 1..Len(pipe'[c]) : pipe'[c][i] = PipeStart
        /\ pipe[c] # <<>> =>
              /\ Len(pipe'[c]) = Len(pipe[c])
              /\ \A i \in 1..Len(pipe[c]) :
                    LET p == pipe[c][i]
                        q == pipe'[c][i]
                    IN  \/ q = p
                        \/ /\ p.pc = "getSnapshot"
                           /\ q.pc = "getSnapshot"
                           /\ q.locals = p.locals
                           /\ Len(q.ladders) = Len(p.ladders)
                        \/ /\ p.pc \notin {"getSnapshot", "resolved"}
                           /\ q.pc = NextCall(p.pc)
                           /\ Has(q.locals, ResultOf(p.pc))
                        \/ /\ p.pc # "resolved"
                           /\ q.pc = "resolved"
                           /\ \/ q.failed
                              \/ p.pc \in {"getLadderSummary", "getSnapshot"}

\* C14: a pipeline has getProfile in flight when it starts; the call in
\* flight changes only to the next one of getProfile, getLegacyMatchHistory,
\* getLadderSummary, the getLadder calls of getSnapshot, and only together
\* with the constant the completed call delivered; a pipeline that returned
\* after a failure or after its last step changes no more, so it issues
\* no further call.  The pipelines of one batch step independently.
C14_OrderedWithinPipeline ==
    []C14_IssuedAfterSuccess /\ [][C14_PipelineStep]_vars

\* The second pipeline is three steps ahead of the first.
C14_Witness ==
    \E c \in Calls :
        /\ Len(pipe[c]) = 2
        /\ pipe[c][1].pc = "getProfile"
        /\ pipe[c][2].pc = "getSnapshot"

\* Two distinct calls for one channel whose existence checks both found no
\* entry.
BothMissed(a, b) ==
    /\ a # b
    /\ Has(seen[a], "check") /\ ~seen[a].check.present
    /\ Has(seen[b], "check") /\ ~seen[b].check.present
    /\ req[a].channelId = req[b].channelId

C15_EachAssemblesAndWrites ==
    \A a \in Calls, b \in Calls :
        BothMissed(a, b) =>
            /\ pc[a] \in {"getFreshData", "returned"}
            /\ Len(pipe[a]) = Len(req[a].profiles) /\ Len(pipe[a]) > 0
            /\ pc[a] = "returned" =>
                  /\ wr[a].pc \in {"set", "expire", "cached", "rejected"}
                  /\ wr[a].segment = CacheSegment(req[a].channelId)
                  /\ wr[a].text = JSONstringify([profiles |-> BatchResult(a)])
            /\ wr[a].pc = "cached" /\ wr[b].pc = "cached"
                  /\ cache[Segment(a)].present =>
                  /\ cache[Segment(a)].expiring
                  /\ cache[Segment(a)].ttl = ttl
                  /\ cache[Segment(a)].value \in {wr[a].text, wr[b].text}

\* A step that leaves an entry under a key either completes a set for that
\* key, and the entry then has the text of that set, or keeps the text.
C15_LaterSetWins ==
    \A k \in Segments :
        cache'[k].present =>
            \/ \E c \in Calls :
                  /\ wr[c].pc = "set" /\ wr'[c].pc = "expire"
                  /\ wr[c].segment = k
                  /\ cache'[k].value = wr[c].text
            \/ /\ cache[k].present
               /\ cache'[k].value = cache[k].value
               /\ \A c \in Calls :
                     wr[c].pc = "set" /\ wr[c].segment = k =>
                         wr'[c].pc # "expire"

\* C15: two calls for one channel that both found no entry each run their
\* own assembly over all their profiles and each start a write of their own
\* result under viewer-{channelId}; every completed set replaces the text
\* of the entry and nothing else changes it, so the entry has the text of
\* the later set; and once both writes completed, an entry still under the
\* key carries the configured expiry.
C15_NoSingleFlight ==
    []C15_EachAssemblesAndWrites /\ [][C15_LaterSetWins]_vars

\* Both writes completed, the results differ, and the entry has the text of
\* the call that started first: its set was the later one.
C15_Witness ==
    /\ BothMissed(1, 2)
    /\ wr[1].pc = "cached" /\ wr[2].pc = "cached"
    /\ wr[1].text # wr[2].text
    /\ cache[Segment(1)].present
    /\ cache[Segment(1)].value = wr[1].text
    /\ cache[Segment(1)].expiring

\* C16: an entry under a viewer-{channelId} key that has no expiry is there
\* only while the write that set it is about to issue or has issued its
\* expire: some cache write for that key is between its set and the reply
\* to its expire.
C16_EveryEntryExpires ==
    \A k \in Segments :
        cache[k].present /\ ~cache[k].expiring =>
            \E c \in Calls : wr[c].pc = "expire" /\ wr[c].segment = k

\* C17: the value a getData call returned is the result of the batch
\* assembly it ran, or the decoded text of the entry its read found under
\* viewer-{channelId}; it is never null.
C17_ReturnsEntryOrAssembly ==
    \A c \in Calls :
        pc[c] = "returned" =>
            /\ ret[c] # JsNull
            /\ \/ Fresh(c) /\ ret[c] = [profiles |-> BatchResult(c)]
               \/ SawEntryAtRead(c) /\ ret[c] = seen[c].read.value.json

\* With the cache active, every assembly that completed started a write of
\* its encoded result, in which the slot of every failed profile is the
\* failure marker.
C18_WriteStarted ==
    \A c \in Calls :
        cacheActive /\ pc[c] = "returned" /\ Fresh(c) =>
            /\ wr[c].pc \in {"set", "expire", "cached", "rejected"}
            /\ wr[c].segment = Segment(c)
            /\ Len(wr[c].text.json.profiles) = Len(pipe[c])
            /\ \A i \in 1..Len(pipe[c]) :
                  pipe[c][i].failed <=>
                      wr[c].text.json.profiles[i] = FailureMarker

\* A call that found an entry at its check and at its read returns the
\* slots of that entry, failure markers included, and starts no pipeline.
C18_MarkersServed ==
    \A c \in Calls :
        pc[c] = "returned" /\ SawEntryAtCheck(c) /\ SawEntryAtRead(c) =>
            /\ pipe[c] = <<>>
            /\ wr[c] = NoWrite
            /\ Len(ret[c].profiles) = Len(seen[c].read.value.json.profiles)
            /\ \A i \in 1..Len(ret[c].profiles) :
                  seen[c].read.value.json.profiles[i] = FailureMarker =>
                      ret[c].profiles[i] = FailureMarker

\* The set of a write puts its text, failure markers included, under its key.
C18_SetStoresMarkers ==
    \A c \in Calls :
        wr[c].pc = "set" /\ wr'[c].pc = "expire" =>
            /\ cache'[wr[c].segment].present
            /\ cache'[wr[c].segment].value = wr[c].text

\* C18: with the cache active every completed assembly starts a write of its
\* encoded result, whether or not slots are failure markers; the set of that
\* write stores the markers; and a later call for the channel that finds
\* the entry returns the markers and issues no upstream call.
C18_FailuresAreCached ==
    /\ []C18_WriteStarted
    /\ []C18_MarkersServed
    /\ [][C18_SetStoresMarkers]_vars

\* The first call assembled a batch of two with one failure marker and
\* wrote it; the second call, for the same channel, was served that batch.
C18_Witness ==
    /\ pc[1] = "returned" /\ Fresh(1) /\ wr[1].pc = "cached"
    /\ Len(pipe[1]) = 2 /\ pipe[1][1].failed /\ ~pipe[1][2].failed
    /\ pc[2] = "returned" /\ req[2].channelId = req[1].channelId
    /\ SawEntryAtCheck(2) /\ SawEntryAtRead(2) /\ pipe[2] = <<>>
    /\ ret[2] = wr[1].text.json
    /\ ret[2].profiles[1] = FailureMarker
    /\ ret[2].profiles[2] # FailureMarker

-----------------------------------------------------------------------------
(* Properties of the persistent store *)

\* The first n elements of list, in their order.
FirstN(list, n) ==
    [i \in 1..(IF Len(list) < n THEN Len(list) ELSE n) |-> list[i]]

\* C11: a get whose store operation succeeded returns, when a save for its
\* channel has returned true, status 200 with that channelId and the first
\* maxPlayerProfileCount elements, in their order, of the list given to the
\* last such save; when no save for the channel has returned true, it
\* returns status 404.
C11_RoundTrip ==
    \A o \in Ops :
        op[o].pc = "done" /\ op[o].kind = "get" /\ ~op[o].failed =>
            IF op[o].was.any
            THEN op[o].result =
                    [status |-> 200,
                     channelId |-> op[o].call.filter.channelId,
                     profiles |-> FirstN(op[o].was.data,
                                         maxPlayerProfileCount)]
            ELSE /\ op[o].result.status = 404
                 /\ ~Has(op[o].result, "profiles")

\* A list of three was saved for channel 1, and read back cut to two; the
\* get for channel 2 found nothing.
C11_Witness ==
    /\ op[1].pc = "done" /\ op[1].kind = "save"
    /\ op[1].result = [returned |-> TRUE]
    /\ op[1].call.config.channelId = 1
    /\ Len(op[1].call.config.data) = 3
    /\ op[1].call.config.data[1] # op[1].call.config.data[2]
    /\ op[2].pc = "done" /\ op[2].kind = "get"
    /\ op[2].result = [status |-> 200, channelId |-> 1,
                       profiles |-> <<op[1].call.config.data[1],
                                      op[1].call.config.data[2]>>]
    /\ op[3].pc = "done" /\ op[3].kind = "get"
    /\ op[3].call.filter.channelId = 2
    /\ op[3].result.status = 404

\* A call of save or get returns a value, and when its store operation was
\* rejected that value is false for save and status 400 for get.
C12_FailuresAreResults ==
    \A o \in Ops :
        op[o].pc = "done" =>
            /\ op[o].kind = "save" =>
                  op[o].result = [returned |-> ~op[o].failed]
            /\ op[o].kind = "get" =>
                  /\ Has(op[o].result, "status")
                  /\ op[o].failed <=> op[o].result = [status |-> 400]

\* The stored list of a channel is the cut list of the last save for the
\* channel that returned true: no save that returned false changed it.
C12_StoredIsLastSaved ==
    \A ch \in StoreChannelIds :
        /\ db[ch].present <=> saved[ch].any
        /\ db[ch].present =>
              db[ch].profiles = FirstN(saved[ch].data, maxPlayerProfileCount)

C12_FailedSaveKeepsStore ==
    \A o \in Ops :
        op[o].pc = "findOneAndUpdate" /\ op'[o].pc = "done"
            /\ op'[o].result = [returned |-> FALSE] => db' = db

-----------------------------------------------------------------------------
(* Properties of one getData call followed on its own *)

\* A call given refresh = true whose existence check found an entry starts
\* no pipeline and no cache write, and returns what its read decodes.
C19_HitNotBypassed ==
    \A c \in Calls :
        refreshGiven[c] /\ SawEntryAtCheck(c) =>
            /\ pipe[c] = <<>>
            /\ wr[c] = NoWrite
            /\ pc[c] \in {"getCachedObject", "returned", "rejected"}
            /\ pc[c] = "returned" =>
                  ret[c] = JSONparse(RedisGetOf(seen[c].read))

\* From one state, the call with refresh = true and the call with
\* refresh = false issue the same cache read or upstream calls and leave
\* the same cache, pipelines and results.
C19_SameStep ==
    \A c \in Calls, ch \in ChannelIds, b \in Batches :
        GetData(c, ch, b, TRUE) <=> GetData(c, ch, b, FALSE)

\* C19: the refresh parameter has no effect: getData with refresh = true
\* does from any state what getData with refresh = false does, and a call
\* given refresh = true that finds an entry is served from the cache.
C19_RefreshHasNoEffect ==
    []C19_HitNotBypassed /\ [][C19_SameStep]_vars

C19_Witness ==
    /\ refreshGiven[1]
    /\ pc[1] = "returned"
    /\ SawEntryAtCheck(1) /\ SawEntryAtRead(1)
    /\ pipe[1] = <<>>
    /\ ret[1] = [profiles |-> <<FailureMarker>>]

\* C20 as claimed: a getData call that ran a batch assembly has not
\* returned while an upstream call it issued has not completed.
C20_HangStallsBatch ==
    \A c \in Calls :
        pc[c] = "returned" /\ Fresh(c) =>
            \A i \in 1..Len(pipe[c]) : pipe[c][i].pending = 0

\* A call that ran a batch assembly returns only when every pipeline has
\* returned, and a pipeline returns with a getLadder call still in flight
\* only through its catch clause: its slot is then the failure marker.
C20_ReturnsWhenSettled ==
    \A c \in Calls :
        pc[c] = "returned" /\ Fresh(c) =>
            \A i \in 1..Len(pipe[c]) :
                /\ pipe[c][i].pc = "resolved"
                /\ pipe[c][i].pending > 0 =>
                      /\ pipe[c][i].failed
                      /\ ret[c].profiles[i] = FailureMarker

\* A pipeline with a call in flight changes only when one of its calls
\* completes, and a call that has started does not return before.
C20_WaitsForCompletion ==
    \A c \in Calls : \A i \in 1..Len(pipe[c]) :
        /\ pipe'[c][i] # pipe[c][i] => UpstreamDone(c, i)
        /\ pipe[c][i].pc # "resolved" => pc'[c] = "getFreshData"

\* Every call that was made returns, or rejects when a cache read failed.
C20_Terminates ==
    \A c \in Calls : pc[c] # "idle" ~> pc[c] \in {"returned", "rejected"}

\* C20 (amended): when every cache read and upstream call completes, the
\* call returns (or rejects), whatever becomes of the cache write; it does
\* not return while a pipeline has not returned, and a pipeline waits for
\* every call it issued except the getLadder calls still in flight when
\* another getLadder call of the same profile fails.
C20_Amended ==
    /\ C20_Terminates
    /\ []C20_ReturnsWhenSettled
    /\ [][C20_WaitsForCompletion]_vars

\* The call returned with its cache write still at the set, one slot being
\* a failure marker with a getLadder call left in flight and the other a
\* full payload.
C20_Witness ==
    /\ pc[1] = "returned" /\ Fresh(1)
    /\ wr[1].pc = "set"
    /\ Len(pipe[1]) = 2
    /\ pipe[1][1].pending = 1
    /\ ret[1].profiles[1] = FailureMarker
    /\ ~pipe[1][2].failed

=============================================================================
